---- MODULE Spec2Model ----
(***************************************************************************)
(* Model of python/hail/methods/statgen.py: the multiallelic split         *)
(* (split_multi_hts and its genotype expression) and the HWE-normalised    *)
(* GRM / PCA pipelines (grm, hwe_normalized_pca).                          *)
(*                                                                         *)
(* Optional values ("NA" in the expression language) are modelled as       *)
(* sequences of length 0 or 1: NA == <<>>, a defined x is <<x>>.           *)
(* Arrays are 0-indexed in the source; here they are sequences and the     *)
(* accessor At shifts the index.                                           *)
(***************************************************************************)
EXTENDS Integers, Sequences, FiniteSets, TLC

VARIABLES
  ds,            \* split: the source dataset (a sequence of rows, one entry each)
  keep_star,     \* split: argument keep_star
  left_aligned,  \* split: argument left_aligned
  split1,        \* split: rows returned by the first split_multi_hts call
  split2,        \* split: rows returned by split_multi_hts applied to split1
  spc,           \* split: "ready" | "split" | "resplit" | "failed" | "idle"
  op,            \* pipeline: "grm" | "pca" | "none"
  arg,           \* pipeline: the dataset passed by the caller
  mt,            \* pipeline: the dataset local variable (sequence of rows)
  ppc,           \* pipeline: position in the function body
  persisted,     \* pipeline: TRUE while the filtered dataset is persisted
  n_variants,    \* pipeline: local n_variants (NA before count_rows)
  entry_expr,    \* pipeline: the normalised entry expression, per row (NA before it is built)
  engine,        \* pipeline: log of calls made into the engine
  outcome,       \* pipeline: NA | [kind |-> "error", msg] | [kind |-> "result", ...]
  biallelic,     \* call: TRUE when every row of the dataset has one alternate allele
  lr,            \* linreg: the arguments x, ys, covariates (the indexing of each expression)
  idx,           \* linreg: position of the running for loop
  all_exprs      \* linreg: local all_exprs

splitVars == <<ds, keep_star, left_aligned, split1, split2, spc>>
pipeVars  == <<op, arg, mt, ppc, persisted, n_variants, entry_expr, engine, outcome>>
callVars  == <<biallelic, lr, idx, all_exprs>>
vars      == <<ds, keep_star, left_aligned, split1, split2, spc,
               op, arg, mt, ppc, persisted, n_variants, entry_expr, engine, outcome,
               biallelic, lr, idx, all_exprs>>

----------------------------------------------------------------------------
(* Bounds *)

\* largest number of alternate alleles of a source row
MaxAlts == 2
\* largest per-allele depth in a generated AD array
MaxDepth == 2
\* largest number of rows of a dataset handed to grm / hwe_normalized_pca
MaxVariants == 2
\* largest number of expressions in the ys and in the covariates of linreg
MaxExprs == 2

\* values a generated PL entry takes
PLVals == {0, 45, 99}
\* values a generated DP / GQ takes when defined
DPVals == {15}
GQVals == {45}
\* the samples (columns) of a pipeline dataset, in column order
SampleIds == <<"s1", "s2">>

----------------------------------------------------------------------------
(* Optional values and arrays *)

NA == <<>>
Def(x) == <<x>>
isDefined(o) == o # <<>>
Val(o) == o[1]
Opt(S) == {NA} \cup {Def(x) : x \in S}

At(arr, i) == arr[i + 1]

RECURSIVE SumTo(_, _)
SumTo(arr, n) == IF n = 0 THEN 0 ELSE SumTo(arr, n - 1) + arr[n]

\* Array.sum()
ArraySum(arr) == SumTo(arr, Len(arr))

\* Array.min() of the values in S (S non-empty)
ArrayMin(S) == CHOOSE x \in S : \A y \in S : x <= y

----------------------------------------------------------------------------
(* Calls: a Call is the index of an unordered allele pair (j, k), j <= k,  *)
(* in the triangular order 0/0, 0/1, 1/1, 0/2, 1/2, 2/2, ...               *)

\* number of unordered genotypes over m alternate alleles
nGenotypes(m) == ((m + 1) * (m + 2)) \div 2

\* index of the pair (j, k), j <= k
gtIndex(j, k) == (k * (k + 1)) \div 2 + j

\* the pair of genotype index c: the largest k with k(k+1)/2 <= c, and the rest
gtPair(c) ==
  LET k == CHOOSE x \in 0..c : (x * (x + 1)) \div 2 <= c /\ c < ((x + 1) * (x + 2)) \div 2
  IN  [j |-> c - (k * (k + 1)) \div 2, k |-> k]

\* Call(j): the call with genotype index j
Call(j) == Def(j)

\* downcode(call, aIndex): alleles equal to aIndex become 1, all others 0
downcode(c, aIndex) ==
  IF isDefined(c)
  THEN LET p == gtPair(Val(c))
       IN  Def(gtIndex(0, 0) + (IF p.j = aIndex THEN 1 ELSE 0) + (IF p.k = aIndex THEN 1 ELSE 0))
  ELSE NA

\* the two smallest entries of a[1..n], n >= 2, found in one pass over a
RECURSIVE TwoSmallest(_, _)
TwoSmallest(a, n) ==
  IF n = 2
  THEN IF a[1] <= a[2] THEN [m |-> a[1], m2 |-> a[2]] ELSE [m |-> a[2], m2 |-> a[1]]
  ELSE LET p == TwoSmallest(a, n - 1)
       IN  IF a[n] < p.m THEN [m |-> a[n], m2 |-> p.m]
           ELSE IF a[n] < p.m2 THEN [m |-> p.m, m2 |-> a[n]]
           ELSE p

\* gqFromPL(pl): difference between the two smallest entries of pl; NA for NA
gqFromPL(pl) ==
  IF isDefined(pl)
  THEN LET p == TwoSmallest(Val(pl), Len(Val(pl))) IN Def(p.m2 - p.m)
  ELSE NA

----------------------------------------------------------------------------
(* split_multi_hts *)

\* variant_expr: 'va.aIndex = aIndex, va.wasSplit = wasSplit'
variant_expr(aIndex, wasSplit) == [aIndex |-> aIndex, wasSplit |-> wasSplit]

\* newad taking the reference depth alone as the new reference depth
newad_refOnly(g, aIndex) ==
  IF isDefined(g.AD)
  THEN Def(<<At(Val(g.AD), 0), At(Val(g.AD), aIndex)>>)
  ELSE NA

\* newad reading the depth one position before aIndex
newad_offByOne(g, aIndex) ==
  IF isDefined(g.AD)
  THEN LET sum == ArraySum(Val(g.AD))
           adi == At(Val(g.AD), aIndex - 1)
       IN  Def(<<sum - adi, adi>>)
  ELSE NA

\* newad of genotype_expr
newad(g, aIndex) ==
  IF isDefined(g.AD)
  THEN LET sum == ArraySum(Val(g.AD))
           adi == At(Val(g.AD), aIndex)
       IN  Def(<<sum - adi, adi>>)
  ELSE NA

\* newpl taking the largest instead of the smallest likelihood
newpl_max(g, aIndex) ==
  IF isDefined(g.PL)
  THEN Def([i \in 1..3 |->
         LET S == { At(Val(g.PL), j) :
                    j \in { jj \in 0..(Len(Val(g.PL)) - 1) :
                            downcode(Call(jj), aIndex) = Call(i - 1) } }
         IN  CHOOSE x \in S : \A y \in S : x >= y])
  ELSE NA

\* newpl of genotype_expr
newpl(g, aIndex) ==
  IF isDefined(g.PL)
  THEN Def([i \in 1..3 |->
         ArrayMin({ At(Val(g.PL), j) :
                    j \in { jj \in 0..(Len(Val(g.PL)) - 1) :
                            downcode(Call(jj), aIndex) = Call(i - 1) } })])
  ELSE NA

\* genotype_expr keeping the multiallelic call
genotype_expr_gtCopied(g, aIndex) ==
  LET pl == newpl(g, aIndex)
  IN  [GT |-> g.GT, AD |-> newad(g, aIndex), DP |-> g.DP, GQ |-> gqFromPL(pl), PL |-> pl]

\* genotype_expr keeping the original quality
genotype_expr_gqCopied(g, aIndex) ==
  [GT |-> downcode(g.GT, aIndex), AD |-> newad(g, aIndex), DP |-> g.DP, GQ |-> g.GQ,
   PL |-> newpl(g, aIndex)]

\* genotype_expr: the entry of the split row for alternate allele aIndex
genotype_expr(g, aIndex) ==
  LET newgt == downcode(g.GT, aIndex)
      ad    == newad(g, aIndex)
      pl    == newpl(g, aIndex)
      newgq == gqFromPL(pl)
  IN  [GT |-> newgt, AD |-> ad, DP |-> g.DP, GQ |-> newgq, PL |-> pl]

\* the alternate allele indices of row r that the split keeps, in order
KeptAlleles(r, keepStar) ==
  SelectSeq([a \in 1..Len(r.star) |-> a], LAMBDA a : keepStar \/ ~r.star[a])

\* SplitMulti on one row: one biallelic row per kept alternate allele
SplitRow(r, keepStar) ==
  LET kept == KeptAlleles(r, keepStar)
      m    == Len(r.star)
  IN  [n \in 1..Len(kept) |->
         [star    |-> <<r.star[kept[n]]>>,
          aligned |-> TRUE,
          va      |-> variant_expr(kept[n], m > 1),
          entry   |-> genotype_expr(r.entry, kept[n])]]

RECURSIVE SplitRows(_, _, _)
SplitRows(rows, n, keepStar) ==
  IF n = 0 THEN <<>> ELSE SplitRows(rows, n - 1, keepStar) \o SplitRow(rows[n], keepStar)

\* SplitMulti.apply: fails when left alignment is asserted and a row violates it
SplitMulti(rows, keepStar, leftAligned) ==
  IF leftAligned /\ \E n \in 1..Len(rows) : ~rows[n].aligned
  THEN [ok |-> FALSE, rows |-> <<>>]
  ELSE [ok |-> TRUE, rows |-> SplitRows(rows, Len(rows), keepStar)]

\* split_multi_hts that does not pass keep_star on
split_multi_hts_dropStar(d, keepStar, leftAligned) == SplitMulti(d, FALSE, leftAligned)

\* split_multi_hts(ds, keep_star, left_aligned)
split_multi_hts(d, keepStar, leftAligned) == SplitMulti(d, keepStar, leftAligned)

----------------------------------------------------------------------------
(* Source rows of the split *)

\* genotype records over m alternate alleles, every field over its whole range
EntriesFull(m) ==
  [GT : Opt(0..(nGenotypes(m) - 1)),
   AD : Opt([1..(m + 1) -> 0..MaxDepth]),
   DP : Opt(DPVals),
   GQ : Opt(GQVals),
   PL : Opt([1..nGenotypes(m) -> PLVals])]

\* records in which the call, the depths and the qualities range
EntriesGT(m) ==
  [GT : Opt(0..(nGenotypes(m) - 1)), AD : {NA}, DP : Opt(DPVals), GQ : Opt(GQVals), PL : {NA}]

\* records in which the allelic depths range
EntriesAD(m) ==
  [GT : {NA}, AD : Opt([1..(m + 1) -> 0..MaxDepth]), DP : {NA}, GQ : {NA}, PL : {NA}]

\* records in which the likelihoods range
EntriesPL(m) ==
  [GT : {NA}, AD : {NA}, DP : {Def(d) : d \in DPVals}, GQ : {Def(q) : q \in GQVals},
   PL : Opt([1..nGenotypes(m) -> PLVals])]

\* biallelic records range over everything; wider sites range field by field
Entries(m) ==
  IF m = 1 THEN EntriesFull(m) ELSE EntriesGT(m) \cup EntriesAD(m) \cup EntriesPL(m)

\* the two records of the documentation, on the site A / C,T
Example1 ==
  [star |-> <<FALSE, FALSE>>, aligned |-> TRUE,
   entry |-> [GT |-> Def(gtIndex(0, 2)), AD |-> Def(<<7, 2, 6>>), DP |-> Def(15),
              GQ |-> Def(45), PL |-> Def(<<99, 50, 99, 0, 45, 99>>)]]

Example2 ==
  [star |-> <<FALSE, FALSE>>, aligned |-> TRUE,
   entry |-> [GT |-> Def(gtIndex(1, 2)), AD |-> Def(<<2, 8, 6>>), DP |-> Def(16),
              GQ |-> Def(45), PL |-> Def(<<99, 50, 99, 45, 0, 99>>)]]

\* rows without star alleles, left aligned, with every record
RowsEntry ==
  UNION { [star : {[a \in 1..m |-> FALSE]}, aligned : {TRUE}, entry : Entries(m)] :
          m \in 1..MaxAlts } \cup {Example1, Example2}

\* rows with every pattern of star alleles and alignment
RowsSite ==
  UNION { [star : [1..m -> BOOLEAN], aligned : BOOLEAN, entry : EntriesGT(m)] :
          m \in 1..MaxAlts }

\* linreg is not called
NoLinreg == [x |-> "entry", ys |-> [list |-> TRUE, v |-> <<>>], covariates |-> <<>>]

PipeIdle ==
  /\ op = "none" /\ arg = <<>> /\ mt = <<>> /\ ppc = "idle" /\ persisted = FALSE
  /\ n_variants = NA /\ entry_expr = NA /\ engine = <<>> /\ outcome = NA
  /\ biallelic = TRUE /\ lr = NoLinreg /\ idx = 0 /\ all_exprs = <<>>

SplitInit ==
  /\ \/ /\ \E r \in RowsEntry : ds = <<r>>
        /\ keep_star = FALSE
        /\ left_aligned = FALSE
     \/ /\ \E r \in RowsSite : ds = <<r>>
        /\ keep_star \in BOOLEAN
        /\ left_aligned \in BOOLEAN
  /\ split1 = <<>>
  /\ split2 = <<>>
  /\ spc = "ready"
  /\ PipeIdle

\* ds is split: split_multi_hts(ds, keep_star, left_aligned)
Split ==
  /\ spc = "ready"
  /\ LET r == split_multi_hts(ds, keep_star, left_aligned)
     IN  /\ split1' = r.rows
         /\ spc' = IF r.ok THEN "split" ELSE "failed"
  /\ UNCHANGED <<ds, keep_star, left_aligned, split2>>
  /\ UNCHANGED pipeVars
  /\ UNCHANGED callVars

\* the result is split again with the same arguments
Resplit ==
  /\ spc = "split"
  /\ LET r == split_multi_hts(split1, keep_star, left_aligned)
     IN  /\ split2' = r.rows
         /\ spc' = IF r.ok THEN "resplit" ELSE "failed"
  /\ UNCHANGED <<ds, keep_star, left_aligned, split1>>
  /\ UNCHANGED pipeVars
  /\ UNCHANGED callVars

SplitNext == Split \/ Resplit

SplitSpec == SplitInit /\ [][SplitNext]_vars

----------------------------------------------------------------------------
(* grm and hwe_normalized_pca *)

\* GT.num_alt_alleles(): number of non-reference alleles of a call; NA for NA
num_alt_alleles(c) ==
  IF isDefined(c)
  THEN LET p == gtPair(Val(c))
       IN  Def((IF p.j > 0 THEN 1 ELSE 0) + (IF p.k > 0 THEN 1 ELSE 0))
  ELSE NA

\* agg.sum over the first n entries of a row: missing values are skipped
RECURSIVE agg_sum(_, _)
agg_sum(gts, n) ==
  IF n = 0 THEN 0
  ELSE agg_sum(gts, n - 1) +
       (IF isDefined(num_alt_alleles(gts[n])) THEN Val(num_alt_alleles(gts[n])) ELSE 0)

\* agg.count_where(is_defined(GT)) over the first n entries of a row
RECURSIVE agg_count_defined(_, _)
agg_count_defined(gts, n) ==
  IF n = 0 THEN 0
  ELSE agg_count_defined(gts, n - 1) + (IF isDefined(gts[n]) THEN 1 ELSE 0)

\* annotate_rows(AC = ..., n_called = ...)
annotate_rows(rows) ==
  [i \in 1..Len(rows) |->
     [key |-> rows[i].key, GT |-> rows[i].GT,
      AC |-> agg_sum(rows[i].GT, Len(rows[i].GT)),
      n_called |-> agg_count_defined(rows[i].GT, Len(rows[i].GT))]]

\* the row predicate with an inclusive upper bound
row_filter_inclusive(r) == (r.AC > 0) /\ (r.AC <= 2 * r.n_called)

\* the row predicate (AC > 0) & (AC < 2 * n_called)
row_filter(r) == (r.AC > 0) /\ (r.AC < 2 * r.n_called)

\* filter_rows(...)
filter_rows(rows) == SelectSeq(rows, row_filter)

\* the message of grm used by both operations
empty_message_copied(o) ==
  "Cannot run GRM: found 0 variants after filtering out monomorphic sites."

\* the message of the FatalError of each operation
empty_message(o) ==
  IF o = "grm"
  THEN "Cannot run GRM: found 0 variants after filtering out monomorphic sites."
  ELSE "Cannot run PCA: found 0 variants after filtering out monomorphic sites."

\* a quotient a / b, kept as its two terms
Quot(a, b) == [num |-> a, den |-> b]

\* the bound expression for one row: mean_gt, the radicand
\* mean_gt * (2 - mean_gt) * n_variants / 2, and per sample the centred
\* count num_alt_alleles - mean_gt (over n_called), or 0 for a missing call
normalized_row(r, nv) ==
  [key  |-> r.key,
   mean |-> Quot(r.AC, r.n_called),
   rad  |-> Quot(r.AC * (2 * r.n_called - r.AC) * nv, 2 * r.n_called * r.n_called),
   e    |-> [s \in 1..Len(r.GT) |->
               IF isDefined(r.GT[s])
               THEN [missing |-> FALSE,
                     c |-> Quot(Val(num_alt_alleles(r.GT[s])) * r.n_called - r.AC, r.n_called)]
               ELSE [missing |-> TRUE, c |-> Quot(0, 1)]]]

\* functions.bind(AC / n_called, lambda mean_gt: cond(...)) over the dataset
normalized_genotype_expr(rows, nv) ==
  [i \in 1..Len(rows) |-> normalized_row(rows[i], nv)]

\* BlockMatrix.from_matrix_table: one matrix row per dataset row, one column per sample
from_matrix_table(expr) ==
  [nrows |-> Len(expr), ncols |-> Len(SampleIds),
   cell  |-> [i \in 1..Len(expr) |->
               [s \in 1..Len(SampleIds) |-> [rad |-> expr[i].rad, x |-> expr[i].e[s]]]]]

\* BlockMatrix.T
T(bm) ==
  [nrows |-> bm.ncols, ncols |-> bm.nrows,
   cell  |-> [i \in 1..bm.ncols |-> [j \in 1..bm.nrows |-> bm.cell[j][i]]]]

\* the product of two normalised entries x / sqrt(rad)
Times(a, b) ==
  [num |-> a.x.c.num * b.x.c.num, den |-> a.x.c.den * b.x.c.den, radL |-> a.rad, radR |-> b.rad]

\* BlockMatrix.dot: each cell is the sum, kept as the sequence of its terms
dot(a, b) ==
  [nrows |-> a.nrows, ncols |-> b.ncols,
   cell  |-> [i \in 1..a.nrows |->
               [k \in 1..b.ncols |->
                  [j \in 1..a.ncols |-> Times(a.cell[i][j], b.cell[j][k])]]]]

\* GT rows of a biallelic dataset: per sample a missing call or 0/0, 0/1, 1/1
GTRows == [1..Len(SampleIds) -> Opt(0..2)]

\* datasets of n rows, keyed by row number
Datasets(n) ==
  { [i \in 1..n |-> [key |-> i, GT |-> g[i]]] : g \in [1..n -> GTRows] }

PipeOps == {"grm", "pca"}

SplitIdle ==
  /\ ds = <<>> /\ keep_star = FALSE /\ left_aligned = FALSE
  /\ split1 = <<>> /\ split2 = <<>> /\ spc = "idle"

\* a call of one of the operations ops decorated with require_biallelic
BiallelicCallInit(ops) ==
  /\ op \in ops
  /\ \E n \in 0..MaxVariants : arg \in Datasets(n)
  /\ mt = arg
  /\ ppc = "require"
  /\ persisted = FALSE
  /\ n_variants = NA
  /\ entry_expr = NA
  /\ engine = <<>>
  /\ outcome = NA
  /\ biallelic \in BOOLEAN
  /\ lr = NoLinreg /\ idx = 0 /\ all_exprs = <<>>
  /\ SplitIdle

PipeInit == BiallelicCallInit(PipeOps)

\* @require_biallelic (statgen.py 118, 173, 547): the check precedes the body
RequireBiallelic ==
  /\ ppc = "require"
  /\ IF biallelic
     THEN /\ ppc' = IF op = "ld_matrix" THEN "ld" ELSE "annotate"
          /\ outcome' = outcome
     ELSE /\ ppc' = "raised"
          /\ outcome' = [kind |-> "error", type |-> "biallelic", msg |-> op]
  /\ UNCHANGED <<op, arg, mt, persisted, n_variants, entry_expr, engine>>
  /\ UNCHANGED splitVars
  /\ UNCHANGED callVars

\* statgen.py 613-614 / 208-209
AnnotateRows ==
  /\ ppc = "annotate"
  /\ mt' = annotate_rows(mt)
  /\ engine' = Append(engine, "annotate_rows")
  /\ ppc' = "filter"
  /\ UNCHANGED <<op, arg, persisted, n_variants, entry_expr, outcome>>
  /\ UNCHANGED splitVars
  /\ UNCHANGED callVars

\* statgen.py 615 / 210
FilterPersist ==
  /\ ppc = "filter"
  /\ mt' = filter_rows(mt)
  /\ persisted' = TRUE
  /\ engine' = engine \o <<"filter_rows", "persist">>
  /\ ppc' = "count"
  /\ UNCHANGED <<op, arg, n_variants, entry_expr, outcome>>
  /\ UNCHANGED splitVars
  /\ UNCHANGED callVars

\* statgen.py 617 / 212; the engine may fail the job
CountRows ==
  /\ ppc = "count"
  /\ engine' = Append(engine, "count_rows")
  /\ \E ok \in BOOLEAN :
       IF ok
       THEN /\ n_variants' = Def(Len(mt))
            /\ ppc' = "check"
            /\ outcome' = outcome
       ELSE /\ n_variants' = n_variants
            /\ ppc' = "raised"
            /\ outcome' = [kind |-> "error", type |-> "engine", msg |-> "count_rows"]
  /\ UNCHANGED <<op, arg, mt, persisted, entry_expr>>
  /\ UNCHANGED splitVars
  /\ UNCHANGED callVars

\* statgen.py 618-620 / 213-216
CheckEmpty ==
  /\ ppc = "check"
  /\ IF Val(n_variants) = 0
     THEN /\ outcome' = [kind |-> "error", type |-> "FatalError", msg |-> empty_message(op)]
          /\ ppc' = "raised"
     ELSE /\ outcome' = outcome
          /\ ppc' = "bind"
  /\ UNCHANGED <<op, arg, mt, persisted, n_variants, entry_expr, engine>>
  /\ UNCHANGED splitVars
  /\ UNCHANGED callVars

\* statgen.py 622-627 / 218-223
BuildEntryExpr ==
  /\ ppc = "bind"
  /\ entry_expr' = Def(normalized_genotype_expr(mt, Val(n_variants)))
  /\ ppc' = "matrix"
  /\ UNCHANGED <<op, arg, mt, persisted, n_variants, engine, outcome>>
  /\ UNCHANGED splitVars
  /\ UNCHANGED callVars

\* statgen.py 629 (BlockMatrix.from_matrix_table) / 224-227 (pca); the engine may fail
MatrixOrPca ==
  /\ ppc = "matrix"
  /\ engine' = Append(engine, IF op = "grm" THEN "from_matrix_table" ELSE "pca")
  /\ \E ok \in BOOLEAN :
       IF ok
       THEN /\ ppc' = "unpersist"
            /\ outcome' = outcome
       ELSE /\ ppc' = "raised"
            /\ outcome' = [kind |-> "error", type |-> "engine",
                           msg |-> IF op = "grm" THEN "from_matrix_table" ELSE "pca"]
  /\ UNCHANGED <<op, arg, mt, persisted, n_variants, entry_expr>>
  /\ UNCHANGED splitVars
  /\ UNCHANGED callVars

\* statgen.py 630 / 228
Unpersist ==
  /\ ppc = "unpersist"
  /\ persisted' = FALSE
  /\ engine' = Append(engine, "unpersist")
  /\ ppc' = "return"
  /\ UNCHANGED <<op, arg, mt, n_variants, entry_expr, outcome>>
  /\ UNCHANGED splitVars
  /\ UNCHANGED callVars

\* Return multiplying in the other order, bm.dot(bm.T)
Return_dotT ==
  /\ ppc = "return"
  /\ IF op = "grm"
     THEN LET bm == from_matrix_table(Val(entry_expr))
          IN  /\ outcome' = [kind |-> "result", op |-> "grm", grm |-> dot(bm, T(bm)),
                             samples |-> SampleIds, n_variants |-> Val(n_variants)]
              /\ engine' = engine \o <<"dot", "cols_table">>
     ELSE /\ outcome' = [kind |-> "result", op |-> "pca"]
          /\ engine' = engine
  /\ ppc' = "done"
  /\ UNCHANGED <<op, arg, mt, persisted, n_variants, entry_expr>>
  /\ UNCHANGED splitVars
  /\ UNCHANGED callVars

\* statgen.py 631-636 (bm.T.dot(bm), KinshipMatrix) / 229 (return result)
Return ==
  /\ ppc = "return"
  /\ IF op = "grm"
     THEN LET bm == from_matrix_table(Val(entry_expr))
          IN  /\ outcome' = [kind |-> "result", op |-> "grm", grm |-> dot(T(bm), bm),
                             samples |-> SampleIds, n_variants |-> Val(n_variants)]
              /\ engine' = engine \o <<"dot", "cols_table">>
     ELSE /\ outcome' = [kind |-> "result", op |-> "pca"]
          /\ engine' = engine
  /\ ppc' = "done"
  /\ UNCHANGED <<op, arg, mt, persisted, n_variants, entry_expr>>
  /\ UNCHANGED splitVars
  /\ UNCHANGED callVars

PipeNext ==
  \/ RequireBiallelic
  \/ AnnotateRows
  \/ FilterPersist
  \/ CountRows
  \/ CheckEmpty
  \/ BuildEntryExpr
  \/ MatrixOrPca
  \/ Unpersist
  \/ Return

PipeSpec == PipeInit /\ [][PipeNext]_vars

----------------------------------------------------------------------------
(* Properties of the split *)

\* the source row, its number of alternate alleles, and whether a split has returned
Src == ds[1]
NAlts == Len(Src.star)
Returned == spc \in {"split", "resplit"}

\* number of copies of allele a in the unordered pair (i, j)
Copies(i, j, a) == Cardinality({x \in 1..2 : <<i, j>>[x] = a})

\* the unordered allele pairs over m alternate alleles
Pairs(m) == {p \in (0..m) \X (0..m) : p[1] <= p[2]}

\* C1: a source row with m >= 1 alternate alleles, none a star allele or
\* keep_star set, yields exactly m rows, the a-th carrying aIndex = a and
\* wasSplit = (m > 1).
C1_OneRowPerAllele ==
  (Returned /\ (keep_star \/ \A a \in 1..NAlts : ~Src.star[a])) =>
    /\ Len(split1) = NAlts
    /\ \A a \in 1..NAlts :
         /\ split1[a].va.aIndex = a
         /\ split1[a].va.wasSplit = (NAlts > 1)

C1_Witness ==
  /\ spc = "split" /\ NAlts = 2 /\ keep_star /\ Src.star[2]
  /\ Len(split1) = 2 /\ split1[2].va.aIndex = 2 /\ split1[2].va.wasSplit

\* C2: the new call of the row for allele a is the number of copies of a in
\* the original pair (i, j): defined for every pair, in {0,1,2}, a function
\* of (i, j, a) alone; an undefined call stays undefined.
C2_DowncodedCall ==
  Returned =>
    \A n \in 1..Len(split1) :
      LET a == split1[n].va.aIndex
          g == Src.entry.GT
          h == split1[n].entry.GT
      IN  /\ ~isDefined(g) => h = NA
          /\ isDefined(g) =>
               /\ \E p \in Pairs(NAlts) : gtIndex(p[1], p[2]) = Val(g)
               /\ \A p \in Pairs(NAlts) :
                    gtIndex(p[1], p[2]) = Val(g) => h = Def(Copies(p[1], p[2], a))
               /\ Val(h) \in 0..2

C2_Witness ==
  /\ spc = "split" /\ NAlts = 2 /\ Src.entry.GT = Def(gtIndex(1, 2))
  /\ Len(split1) = 2 /\ split1[1].entry.GT = Def(1) /\ split1[2].entry.GT = Def(1)

\* the original likelihoods of the genotypes that downcode to g relative to a
PLClass(pl, m, a, g) ==
  { At(pl, gtIndex(p[1], p[2])) : p \in {q \in Pairs(m) : Copies(q[1], q[2], a) = g} }

\* C3: a defined PL becomes a 3-entry PL whose entry g is the minimum of the
\* original PL over the genotypes that downcode to g; an undefined PL stays
\* undefined.
C3_DowncodedPL ==
  Returned =>
    \A n \in 1..Len(split1) :
      LET a  == split1[n].va.aIndex
          pl == Src.entry.PL
          np == split1[n].entry.PL
      IN  /\ ~isDefined(pl) => np = NA
          /\ isDefined(pl) =>
               /\ isDefined(np)
               /\ Len(Val(np)) = 3
               /\ \A g \in 0..2 :
                    /\ At(Val(np), g) \in PLClass(Val(pl), NAlts, a, g)
                    /\ \A y \in PLClass(Val(pl), NAlts, a, g) : At(Val(np), g) <= y

C3_Witness ==
  /\ spc = "split" /\ NAlts = 2
  /\ Src.entry.PL = Def(<<99, 45, 99, 0, 45, 99>>)
  /\ split1[1].entry.PL = Def(<<0, 45, 99>>)
  /\ split1[2].entry.PL = Def(<<45, 0, 99>>)

\* sum of the entries of ad at the allele indices other than a
RECURSIVE SumExcept(_, _, _)
SumExcept(ad, n, a) ==
  IF n = 0 THEN 0
  ELSE SumExcept(ad, n - 1, a) + (IF n - 1 = a THEN 0 ELSE ad[n])

\* C4: a defined AD becomes [sum of the depths of the alleles other than a,
\* depth of a]; an undefined AD stays undefined.
C4_DowncodedAD ==
  Returned =>
    \A n \in 1..Len(split1) :
      LET a  == split1[n].va.aIndex
          ad == Src.entry.AD
          nd == split1[n].entry.AD
      IN  /\ ~isDefined(ad) => nd = NA
          /\ isDefined(ad) =>
               nd = Def(<<SumExcept(Val(ad), Len(Val(ad)), a), At(Val(ad), a)>>)

C4_Witness ==
  /\ spc = "split" /\ NAlts = 2
  /\ Src.entry.AD = Def(<<1, 2, 1>>)
  /\ split1[1].entry.AD = Def(<<2, 2>>)
  /\ split1[2].entry.AD = Def(<<3, 1>>)

\* the difference between the two smallest entries of pl, as a set of values:
\* pl[q] - pl[p] for a position p of a smallest entry and a position q of a
\* smallest entry among the others
GQOf(pl) ==
  { pl[q] - pl[p] :
      <<p, q>> \in { w \in (1..Len(pl)) \X (1..Len(pl)) :
                       /\ w[1] # w[2]
                       /\ \A k \in 1..Len(pl) : pl[w[1]] <= pl[k]
                       /\ \A k \in (1..Len(pl)) \ {w[1]} : pl[w[2]] <= pl[k] } }

\* the quality recomputed from an optional PL
RecomputedGQ(pl, gq) ==
  IF isDefined(pl) THEN isDefined(gq) /\ GQOf(Val(pl)) = {Val(gq)} ELSE gq = NA

\* the biallelic source row is kept by the split
KeptBiallelic == NAlts = 1 /\ (keep_star \/ ~Src.star[1])

\* C5 as stated: a biallelic row yields one row with wasSplit = FALSE, aIndex = 1
\* and a record whose GT, AD, DP, GQ and PL are the input's; a second split
\* changes nothing.
C5_Original ==
  (Returned /\ KeptBiallelic) =>
    /\ Len(split1) = 1
    /\ split1[1].va = [aIndex |-> 1, wasSplit |-> FALSE]
    /\ split1[1].entry = Src.entry
    /\ spc = "resplit" => (Len(split2) = 1 /\ split2[1].entry = split1[1].entry)

\* C5 (amended): a biallelic row the split keeps yields one row with
\* wasSplit = FALSE, aIndex = 1 and a record whose GT, AD, DP and PL are the
\* input's and whose GQ is the quality recomputed from PL by gqFromPL
\* (undefined for an undefined PL), so the record is the input's exactly when
\* the input GQ had that value; a second split changes no field of the first
\* result.
C5_BiallelicFixpoint ==
  (Returned /\ KeptBiallelic) =>
    /\ Len(split1) = 1
    /\ split1[1].va = [aIndex |-> 1, wasSplit |-> FALSE]
    /\ split1[1].entry.GT = Src.entry.GT
    /\ split1[1].entry.AD = Src.entry.AD
    /\ split1[1].entry.DP = Src.entry.DP
    /\ split1[1].entry.PL = Src.entry.PL
    /\ RecomputedGQ(Src.entry.PL, split1[1].entry.GQ)
    /\ (split1[1].entry = Src.entry) <=> RecomputedGQ(Src.entry.PL, Src.entry.GQ)
    /\ spc = "resplit" =>
         /\ Len(split2) = 1
         /\ split2[1].va = split1[1].va
         /\ split2[1].entry = split1[1].entry

C5_Witness ==
  /\ spc = "resplit" /\ NAlts = 1
  /\ Src.entry.PL = Def(<<0, 99, 99>>) /\ Src.entry.GQ = Def(45)
  /\ isDefined(Src.entry.AD) /\ isDefined(Src.entry.GT)
  /\ split1[1].entry.GQ = Def(99)
  /\ split2[1].entry.GQ = Def(99)

\* C6: the new GQ is the difference between the two smallest entries of the
\* new PL, whatever the original GQ was, and DP is the original DP.
C6_RecomputedGQ ==
  Returned =>
    \A n \in 1..Len(split1) :
      /\ RecomputedGQ(split1[n].entry.PL, split1[n].entry.GQ)
      /\ split1[n].entry.DP = Src.entry.DP

C6_Witness ==
  /\ spc = "split" /\ NAlts = 2
  /\ Src.entry.GQ = Def(45) /\ Src.entry.DP = Def(15)
  /\ Src.entry.PL = Def(<<0, 99, 99, 45, 99, 99>>)
  /\ split1[1].entry.GQ = Def(99)
  /\ split1[2].entry.GQ = Def(45)
  /\ split1[2].entry.DP = Def(15)

\* the records the documentation gives for the two examples, for C and for T
Example1Split ==
  << [GT |-> Def(gtIndex(0, 0)), AD |-> Def(<<13, 2>>), DP |-> Def(15), GQ |-> Def(45),
      PL |-> Def(<<0, 45, 99>>)],
     [GT |-> Def(gtIndex(0, 1)), AD |-> Def(<<9, 6>>), DP |-> Def(15), GQ |-> Def(50),
      PL |-> Def(<<50, 0, 99>>)] >>

Example2Split ==
  << [GT |-> Def(gtIndex(0, 1)), AD |-> Def(<<8, 8>>), DP |-> Def(16), GQ |-> Def(45),
      PL |-> Def(<<45, 0, 99>>)],
     [GT |-> Def(gtIndex(0, 1)), AD |-> Def(<<10, 6>>), DP |-> Def(16), GQ |-> Def(50),
      PL |-> Def(<<50, 0, 99>>)] >>

\* C7: the two documented records on the site A / C,T split into the
\* documented records for C and for T.
C7_WorkedExamples ==
  Returned =>
    /\ ds = <<Example1>> =>
         (Len(split1) = 2 /\ \A a \in 1..2 : split1[a].entry = Example1Split[a])
    /\ ds = <<Example2>> =>
         (Len(split1) = 2 /\ \A a \in 1..2 : split1[a].entry = Example2Split[a])

C7_Witness ==
  /\ spc = "split" /\ ds = <<Example2>>
  /\ split1[1].entry.AD = Def(<<8, 8>>) /\ split1[2].entry.AD = Def(<<10, 6>>)

----------------------------------------------------------------------------
(* Properties of grm and hwe_normalized_pca *)

\* alternate-allele count and number of called samples of a row of calls,
\* counted sample by sample
AltCount(gts) ==
  Cardinality({s \in 1..Len(gts) : gts[s] = Def(1)}) +
  2 * Cardinality({s \in 1..Len(gts) : gts[s] = Def(2)})

Called(gts) == Cardinality({s \in 1..Len(gts) : gts[s] # NA})

\* the row filter has run
Filtered == \E i \in 1..Len(engine) : engine[i] = "filter_rows"

\* C9: every row that survives the filter has n_called > 0 and
\* 0 < AC / n_called < 2, so the divisor n_called and the radicand
\* mean_gt * (2 - mean_gt) * n_variants / 2 of every normalised entry are
\* non-zero; the rows discarded are those with AC = 0, AC = 2 * n_called or
\* no called sample.
C9_NormalizerWellDefined ==
  /\ Filtered =>
       /\ \A i \in 1..Len(mt) :
            LET gts == arg[mt[i].key].GT
            IN  /\ mt[i].AC = AltCount(gts)
                /\ mt[i].n_called = Called(gts)
                /\ Called(gts) > 0
                /\ 0 < AltCount(gts)
                /\ AltCount(gts) < 2 * Called(gts)
       /\ \A k \in 1..Len(arg) :
            (\A i \in 1..Len(mt) : mt[i].key # k) <=>
              \/ AltCount(arg[k].GT) = 0
              \/ AltCount(arg[k].GT) = 2 * Called(arg[k].GT)
              \/ Called(arg[k].GT) = 0
  /\ isDefined(entry_expr) =>
       /\ Len(Val(entry_expr)) = Len(mt)
       /\ \A i \in 1..Len(mt) :
            LET x == Val(entry_expr)[i]
                gts == arg[mt[i].key].GT
            IN  /\ x.mean = Quot(AltCount(gts), Called(gts))
                /\ x.mean.den # 0
                /\ 0 < x.mean.num /\ x.mean.num < 2 * x.mean.den
                /\ x.rad.den > 0
                /\ x.rad.num > 0
                /\ \A s \in 1..Len(x.e) : x.e[s].c.den # 0

C9_Witness ==
  /\ isDefined(entry_expr)
  /\ Len(arg) = 2 /\ Len(mt) = 1 /\ mt[1].key = 2
  /\ arg[1].GT = <<Def(2), Def(2)>>
  /\ arg[2].GT = <<Def(1), NA>>
  /\ Val(entry_expr)[1].mean = Quot(1, 1)

\* the engine calls made up to and including count_rows
CallsToCount == <<"annotate_rows", "filter_rows", "persist", "count_rows">>

\* the call has ended with the FatalError for an empty dataset
EmptyError == isDefined(outcome) /\ outcome.kind = "error" /\ outcome.type = "FatalError"

C10_State ==
  /\ (isDefined(n_variants) /\ Val(n_variants) = 0 /\ ppc # "check") =>
       /\ ppc = "raised"
       /\ EmptyError
       /\ op = "grm" =>
            outcome.msg = "Cannot run GRM: found 0 variants after filtering out monomorphic sites."
       /\ op = "pca" =>
            outcome.msg = "Cannot run PCA: found 0 variants after filtering out monomorphic sites."
       /\ entry_expr = NA
       /\ engine = CallsToCount
  /\ (isDefined(n_variants) /\ Val(n_variants) = 0) => Len(mt) = 0
  /\ (isDefined(n_variants) /\ Val(n_variants) > 0) => ~EmptyError
  /\ EmptyError => (ppc = "raised" /\ n_variants = Def(0))

\* C10: when the row count after the filter is 0 the call ends with the
\* FatalError naming its operation, raised before the entry expression is
\* built and before any matrix or PCA call, and nothing runs after it; when
\* the count is positive that error is never raised.
C10_EmptyAfterFilter == [](C10_State) /\ [][ppc # "raised"]_vars

C10_Witness ==
  /\ ppc = "raised" /\ EmptyError /\ op = "pca"
  /\ Len(arg) = 2 /\ n_variants = Def(0)

----------------------------------------------------------------------------
(* Further properties of the PL downcode *)

\* the original genotype indices of a PL of length n that downcode to g relative to a
DowncodeClass(n, a, g) == {j \in 0..(n - 1) : downcode(Call(j), a) = Call(g)}

\* the classes for every number m of alternate alleles and every allele a of m
DowncodeClasses ==
  [m \in 1..MaxAlts |->
     [a \in 1..m |-> [g \in 0..2 |-> DowncodeClass(nGenotypes(m), a, g)]]]

\* the smallest entry of a non-empty array
Smallest(arr) == CHOOSE x \in {arr[i] : i \in 1..Len(arr)} : \A i \in 1..Len(arr) : x <= arr[i]

\* C14: for a defined PL of full length (m+1)(m+2)/2 and every emitted a, the
\* index sets that downcode to 0, 1 and 2 are pairwise disjoint, non-empty and
\* cover every index, and the smallest entry of the new PL is the smallest
\* entry of the original PL.
C14_DowncodeClasses ==
  Returned =>
    \A n \in 1..Len(split1) :
      LET a   == split1[n].va.aIndex
          pl  == Src.entry.PL
          np  == split1[n].entry.PL
          cls == DowncodeClasses[NAlts][a]
      IN  isDefined(pl) =>
            /\ Len(Val(pl)) = nGenotypes(NAlts)
            /\ \A g \in 0..2 : cls[g] # {}
            /\ \A g, h \in 0..2 : g # h => cls[g] \cap cls[h] = {}
            /\ UNION {cls[g] : g \in 0..2} = 0..(Len(Val(pl)) - 1)
            /\ Smallest(Val(np)) = Smallest(Val(pl))
            /\ Smallest(Val(pl)) = 0 => Smallest(Val(np)) = 0

C14_Witness ==
  /\ spc = "split" /\ NAlts = 2
  /\ Src.entry.PL = Def(<<45, 99, 99, 0, 99, 45>>)
  /\ split1[1].entry.PL = Def(<<0, 99, 99>>)
  /\ split1[2].entry.PL = Def(<<45, 0, 45>>)
  /\ DowncodeClass(6, 2, 1) = {3, 4}

----------------------------------------------------------------------------
(* Further properties of grm and hwe_normalized_pca *)

\* the call has ended
Ended == ppc \in {"done", "raised"}

\* the normalised entry of sample s at the i-th retained row
NormEntry(i, s) == [rad |-> Val(entry_expr)[i].rad, x |-> Val(entry_expr)[i].e[s]]

\* C12: the matrix grm hands to the kinship result has one row and one column
\* per sample, its (i,k) cell is the sum over the retained variants j of the
\* product of the normalised entries of samples i and k at j, and it is
\* symmetric.
C12_GrmSymmetric ==
  (ppc = "done" /\ op = "grm") =>
    LET G == outcome.grm
        S == 1..Len(SampleIds)
    IN  /\ G.nrows = Len(SampleIds)
        /\ G.ncols = Len(SampleIds)
        /\ DOMAIN G.cell = S
        /\ \A i \in S :
             /\ DOMAIN G.cell[i] = S
             /\ \A k \in S :
                  /\ G.cell[i][k] =
                       [j \in 1..Len(mt) |-> Times(NormEntry(j, i), NormEntry(j, k))]
                  /\ G.cell[i][k] = G.cell[k][i]

C12_Witness ==
  /\ ppc = "done" /\ op = "grm"
  /\ Len(arg) = 2 /\ Len(mt) = 1
  /\ mt[1].GT = <<Def(0), Def(1)>>
  /\ outcome.grm.nrows = 2 /\ outcome.grm.ncols = 2
  /\ outcome.grm.cell[1][2] = outcome.grm.cell[2][1]
  /\ outcome.grm.cell[1][2][1].num < 0
  /\ outcome.n_variants = 1

\* position of the first occurrence of call c in the engine log, 0 if absent
FirstCall(c) ==
  IF \E i \in 1..Len(engine) : engine[i] = c
  THEN CHOOSE i \in 1..Len(engine) : engine[i] = c /\ \A k \in 1..(i - 1) : engine[k] # c
  ELSE 0

\* the matrix build of grm or the PCA call of hwe_normalized_pca
MatrixCall == IF op = "grm" THEN "from_matrix_table" ELSE "pca"

\* the call has ended by one of: a return, the zero-variants error, an engine
\* failure in the matrix / PCA step
NamedExit ==
  \/ ppc = "done"
  \/ /\ ppc = "raised"
     /\ \/ EmptyError
        \/ outcome.type = "engine" /\ outcome.msg = MatrixCall

\* C13: the filtered dataset is persisted before the row count and the matrix
\* build; when the call ends, by a return, by the zero-variants error or by an
\* engine failure in the matrix / PCA step, the dataset has been unpersisted;
\* on the normal path the unpersist follows the matrix build / PCA call.
C13_ReleasedOnEveryExit ==
  /\ FirstCall("count_rows") > 0 =>
       (FirstCall("persist") > 0 /\ FirstCall("persist") < FirstCall("count_rows"))
  /\ FirstCall(MatrixCall) > 0 =>
       (FirstCall("persist") > 0 /\ FirstCall("persist") < FirstCall(MatrixCall))
  /\ ppc = "done" =>
       (FirstCall("unpersist") > FirstCall(MatrixCall) /\ FirstCall(MatrixCall) > 0)
  /\ NamedExit => ~persisted

----------------------------------------------------------------------------
(* linreg and ld_matrix *)

\* the indexing an expression can have
Kinds == {"row", "col", "entry"}

\* analyze(caller, expr, expected_indices): accepts an expression indexed as expected
analyze(e, expected) == e = expected

\* wrap_to_list of utils/misc.py: a list is returned as it is, anything else in a list
wrap_to_list(s) == IF s.list THEN s ELSE [list |-> TRUE, v |-> <<s.v>>]

\* the steps of the body of linreg with the covariates analysed after the engine call
linreg_order_joinsFirst == <<"lr_x", "lr_ys", "lr_joins", "lr_engine", "lr_cov">>

\* the steps of the body of linreg, in program order (statgen.py 88-112)
linreg_order == <<"lr_x", "lr_ys", "lr_cov", "lr_joins", "lr_engine">>

\* number of iterations of a step: the two for loops run once per expression
Iterations(step, l) ==
  IF step = "lr_ys" THEN Len(wrap_to_list(l.ys).v)
  ELSE IF step = "lr_cov" THEN Len(l.covariates)
  ELSE 1

\* the first step after position i that runs at all; the return when there is none
RECURSIVE StepAfter(_, _, _)
StepAfter(order, i, l) ==
  IF i >= Len(order) THEN "lr_return"
  ELSE IF Iterations(order[i + 1], l) > 0 THEN order[i + 1]
  ELSE StepAfter(order, i + 1, l)

\* the step that follows step in the body of linreg
After(step, l) ==
  StepAfter(linreg_order, CHOOSE i \in 1..Len(linreg_order) : linreg_order[i] = step, l)

\* the error analyze raises for caller
AnalysisError(caller) == [kind |-> "error", type |-> "analysis", msg |-> caller]

\* the arguments of linreg: ys is one expression or a list, covariates a list
ExprLists == UNION {[1..n -> Kinds] : n \in 0..MaxExprs}

LinregArgs ==
  [x : Kinds,
   ys : [list : {FALSE}, v : Kinds] \cup [list : {TRUE}, v : ExprLists],
   covariates : ExprLists]

LinregInit ==
  /\ op = "linreg"
  /\ arg = <<>> /\ mt = <<>>
  /\ ppc = "lr_x"
  /\ persisted = FALSE /\ n_variants = NA /\ entry_expr = NA
  /\ engine = <<>> /\ outcome = NA
  /\ biallelic \in BOOLEAN
  /\ lr \in LinregArgs
  /\ idx = 0
  /\ all_exprs = <<>>
  /\ SplitIdle

\* statgen.py 88-96: all_exprs = [x], ys wrapped, analyze('linreg/x', ...)
LinregX ==
  /\ op = "linreg" /\ ppc = "lr_x"
  /\ all_exprs' = <<lr.x>>
  /\ lr' = [lr EXCEPT !.ys = wrap_to_list(wrap_to_list(lr.ys))]
  /\ IF analyze(lr.x, "entry")
     THEN /\ ppc' = After("lr_x", lr)
          /\ idx' = 1
          /\ outcome' = outcome
     ELSE /\ ppc' = "raised"
          /\ idx' = idx
          /\ outcome' = AnalysisError("linreg/x")
  /\ UNCHANGED <<op, arg, mt, persisted, n_variants, entry_expr, engine, biallelic>>
  /\ UNCHANGED splitVars

\* statgen.py 97-99: one iteration of the loop over ys
LinregYs ==
  /\ op = "linreg" /\ ppc = "lr_ys"
  /\ all_exprs' = Append(all_exprs, lr.ys.v[idx])
  /\ IF analyze(lr.ys.v[idx], "col")
     THEN /\ ppc' = IF idx < Len(lr.ys.v) THEN "lr_ys" ELSE After("lr_ys", lr)
          /\ idx' = IF idx < Len(lr.ys.v) THEN idx + 1 ELSE 1
          /\ outcome' = outcome
     ELSE /\ ppc' = "raised"
          /\ idx' = idx
          /\ outcome' = AnalysisError("linreg/ys")
  /\ UNCHANGED <<op, arg, mt, persisted, n_variants, entry_expr, engine, biallelic, lr>>
  /\ UNCHANGED splitVars

\* statgen.py 100-102: one iteration of the loop over covariates
LinregCovariates ==
  /\ op = "linreg" /\ ppc = "lr_cov"
  /\ all_exprs' = Append(all_exprs, lr.covariates[idx])
  /\ IF analyze(lr.covariates[idx], "col")
     THEN /\ ppc' = IF idx < Len(lr.covariates) THEN "lr_cov" ELSE After("lr_cov", lr)
          /\ idx' = IF idx < Len(lr.covariates) THEN idx + 1 ELSE 1
          /\ outcome' = outcome
     ELSE /\ ppc' = "raised"
          /\ idx' = idx
          /\ outcome' = AnalysisError("linreg/covariates")
  /\ UNCHANGED <<op, arg, mt, persisted, n_variants, entry_expr, engine, biallelic, lr>>
  /\ UNCHANGED splitVars

\* statgen.py 104: dataset._process_joins(*all_exprs)
LinregJoins ==
  /\ op = "linreg" /\ ppc = "lr_joins"
  /\ engine' = Append(engine, "process_joins")
  /\ ppc' = After("lr_joins", lr)
  /\ UNCHANGED <<op, arg, mt, persisted, n_variants, entry_expr, outcome>>
  /\ UNCHANGED splitVars
  /\ UNCHANGED callVars

\* statgen.py 106-112: base._jvds.linreg(...); the engine may fail
LinregEngine ==
  /\ op = "linreg" /\ ppc = "lr_engine"
  /\ engine' = Append(engine, "linreg")
  /\ \E ok \in BOOLEAN :
       IF ok
       THEN /\ ppc' = After("lr_engine", lr)
            /\ outcome' = outcome
       ELSE /\ ppc' = "raised"
            /\ outcome' = [kind |-> "error", type |-> "engine", msg |-> "linreg"]
  /\ UNCHANGED <<op, arg, mt, persisted, n_variants, entry_expr>>
  /\ UNCHANGED splitVars
  /\ UNCHANGED callVars

\* statgen.py 114: return cleanup(MatrixTable(jm))
LinregReturn ==
  /\ op = "linreg" /\ ppc = "lr_return"
  /\ outcome' = [kind |-> "result", op |-> "linreg"]
  /\ ppc' = "done"
  /\ UNCHANGED <<op, arg, mt, persisted, n_variants, entry_expr, engine>>
  /\ UNCHANGED splitVars
  /\ UNCHANGED callVars

\* statgen.py 168-169: LDMatrix.apply(dataset._jvds, force_local); the engine may fail
LdMatrix ==
  /\ op = "ld_matrix" /\ ppc = "ld"
  /\ engine' = Append(engine, "LDMatrix.apply")
  /\ \E ok \in BOOLEAN :
       IF ok
       THEN /\ ppc' = "done"
            /\ outcome' = [kind |-> "result", op |-> "ld_matrix"]
       ELSE /\ ppc' = "raised"
            /\ outcome' = [kind |-> "error", type |-> "engine", msg |-> "LDMatrix.apply"]
  /\ UNCHANGED <<op, arg, mt, persisted, n_variants, entry_expr>>
  /\ UNCHANGED splitVars
  /\ UNCHANGED callVars

\* the operations decorated with require_biallelic
BiallelicOps == {"grm", "pca", "ld_matrix"}

CallInit == BiallelicCallInit(BiallelicOps) \/ LinregInit

CallNext ==
  \/ PipeNext
  \/ LdMatrix
  \/ LinregX
  \/ LinregYs
  \/ LinregCovariates
  \/ LinregJoins
  \/ LinregEngine
  \/ LinregReturn

CallSpec == CallInit /\ [][CallNext]_vars

----------------------------------------------------------------------------
(* Preconditions *)

\* every argument of linreg is indexed as linreg requires
LinregWellIndexed ==
  /\ lr.x = "entry"
  /\ \A i \in 1..Len(wrap_to_list(lr.ys).v) : wrap_to_list(lr.ys).v[i] = "col"
  /\ \A i \in 1..Len(lr.covariates) : lr.covariates[i] = "col"

\* the call has ended with the error of a violated precondition
PreconditionError(type) ==
  isDefined(outcome) /\ outcome.kind = "error" /\ outcome.type = type

\* C11: a violated precondition is raised before any call into the engine:
\* linreg analyses x (entry-indexed), every y and every covariate
\* (column-indexed) before it processes joins or calls the engine's linreg,
\* and grm, hwe_normalized_pca and ld_matrix check that the dataset is
\* biallelic before anything of their body runs; after a violation no engine
\* call is made.
C11_PreconditionsFirst ==
  /\ op = "linreg" =>
       /\ engine # <<>> => LinregWellIndexed
       /\ ~LinregWellIndexed =>
            /\ engine = <<>>
            /\ (ppc \in {"done", "raised"}) => PreconditionError("analysis")
       /\ PreconditionError("analysis") => (ppc = "raised" /\ ~LinregWellIndexed)
  /\ op \in BiallelicOps =>
       /\ engine # <<>> => biallelic
       /\ ~biallelic =>
            /\ engine = <<>>
            /\ mt = arg /\ ~persisted /\ n_variants = NA /\ entry_expr = NA
            /\ ppc \in {"require", "raised"}
            /\ ppc = "raised" => PreconditionError("biallelic")
       /\ PreconditionError("biallelic") => (ppc = "raised" /\ ~biallelic)

C11_Witness ==
  /\ op = "linreg" /\ ppc = "raised"
  /\ PreconditionError("analysis") /\ outcome.msg = "linreg/covariates"
  /\ lr.x = "entry" /\ Len(lr.ys.v) = 2 /\ Len(lr.covariates) = 2
  /\ lr.covariates[2] = "row"
  /\ Len(all_exprs) = 5
  /\ engine = <<>>

====
